---- MODULE Spec2Model ----
(***************************************************************************)
(* A model of rand-str-gen (src/main.rs): the command line is parsed in    *)
(* two phases, a character pool is built from the predefined sets and the  *)
(* custom add/remove lists, and `repeat` strings of `len` characters are   *)
(* sampled from the pool by mapping random bytes onto pool indices.        *)
(*                                                                         *)
(* A character is a one-character string, a token (one command-line        *)
(* argument) and a generated string are sequences of characters.           *)
(***************************************************************************)
EXTENDS Integers, Sequences, FiniteSets, TLC

\* ------------------------------------------------------------------------
\* Predefined character sets (main.rs 7-25)
\* ------------------------------------------------------------------------

DIGITS == <<"0", "1", "2", "3", "4", "5", "6", "7", "8", "9">>

LETTERS_LC ==
    <<"a", "b", "c", "d", "e", "f", "g", "h", "i", "j", "k", "l", "m",
      "n", "o", "p", "q", "r", "s", "t", "u", "v", "w", "x", "y", "z">>

LETTERS_UC ==
    <<"A", "B", "C", "D", "E", "F", "G", "H", "I", "J", "K", "L", "M",
      "N", "O", "P", "Q", "R", "S", "T", "U", "V", "W", "X", "Y", "Z">>

SEPARATORS == <<"-", ".", "_">>

MISC_SYMBOLS == <<"!", "*", "&", "#">>

DEFINED_SETS == <<DIGITS, LETTERS_LC, LETTERS_UC, SEPARATORS, MISC_SYMBOLS>>

Range(s) == {s[i] : i \in DOMAIN s}

\* ------------------------------------------------------------------------
\* f32 arithmetic of the byte-to-index mapping (main.rs 101, 105)
\*
\* A non-negative f32 is [m, e] standing for m * 2^e with m < 2^24 (24
\* significant bits); an inexact result is rounded to nearest, ties to even.
\* Products are formed in two 12-bit halves so that no intermediate value
\* leaves the 32-bit integers.
\* ------------------------------------------------------------------------

\* largest byte value; the divisor 255.0 of the scale
BYTE_MAX == 255

Bytes == 0..BYTE_MAX

\* number of significant bits of an f32
F32_MANT_BITS == 24

Pow2(k) == 2 ^ k

F32_MIN_M == Pow2(F32_MANT_BITS - 1)

F32_LIM_M == Pow2(F32_MANT_BITS)

\* m * 2^e after a rounding step that may have carried m up to 2^24
F32Renorm(m, e) ==
    IF m = F32_LIM_M THEN [m |-> F32_MIN_M, e |-> e + 1] ELSE [m |-> m, e |-> e]

\* long division a / d carried on until the quotient has 24 bits:
\* q is the quotient so far, r the remainder, e the exponent of q's unit
RECURSIVE F32DivSteps(_, _, _, _)
F32DivSteps(q, r, d, e) ==
    IF q >= F32_MIN_M
    THEN LET up == (2 * r > d) \/ (2 * r = d /\ q % 2 = 1)
         IN  F32Renorm(IF up THEN q + 1 ELSE q, e)
    ELSE F32DivSteps(2 * q + (IF 2 * r >= d THEN 1 ELSE 0),
                     IF 2 * r >= d THEN 2 * r - d ELSE 2 * r,
                     d, e - 1)

\* (a as f32) / (d as f32) for integers 0 <= a < 2^24, 0 < d < 2^24,
\* both exactly representable
F32DivInts(a, d) ==
    IF a = 0 THEN [m |-> 0, e |-> 0] ELSE F32DivSteps(a \div d, a % d, d, 0)

\* the least s >= from with hi < 2^(12 + s)
RECURSIVE F32Shift(_, _)
F32Shift(hi, from) ==
    IF hi < Pow2(12 + from) THEN from ELSE F32Shift(hi, from + 1)

\* (b as f32) * x for a byte b (exactly representable) and an f32 x
F32MulU8(b, x) ==
    IF b = 0 \/ x.m = 0 THEN [m |-> 0, e |-> 0]
    ELSE LET lo   == b * (x.m % 4096)
             hi   == b * (x.m \div 4096) + (lo \div 4096)
             l0   == lo % 4096
             \* the exact product is hi * 4096 + l0, of at most 32 bits
             s    == F32Shift(hi, 0)
             q    == hi * Pow2(12 - s) + (l0 \div Pow2(s))
             rem  == l0 % Pow2(s)
             half == IF s = 0 THEN 1 ELSE Pow2(s - 1)
             up   == s > 0 /\ (rem > half \/ (rem = half /\ q % 2 = 1))
             \* b < 2^8 and x.m >= 2^23, so q may still be short of 24 bits:
             \* then the product is exact and q is left as it is
         IN  F32Renorm(IF up THEN q + 1 ELSE q, x.e + s)

\* f32::round (half away from zero) followed by `as usize`, for x >= 0
F32RoundToUsize(x) ==
    IF x.m = 0 THEN 0
    ELSE IF x.e >= 0 THEN x.m * Pow2(x.e)
    ELSE IF -x.e > F32_MANT_BITS THEN 0
    ELSE (x.m + Pow2(-x.e - 1)) \div Pow2(-x.e)

\* Scale with the pool's length in place of its last index
ScaleOfLength(n) == F32DivInts(n, BYTE_MAX)

\* scale = (pool.len() - 1) as f32 / 255.0 (main.rs 101, 264)
Scale(n) == F32DivInts(n - 1, BYTE_MAX)

\* (idx as f32 * scale).round() as usize (main.rs 105, 265)
ScaledIndex(idx, scale) == F32RoundToUsize(F32MulU8(idx, scale))

\* gen_rand_string with the bytes getrandom delivered as `indices`
\* (main.rs 91-107).  Indexing the pool out of bounds panics.
gen_rand_string(pool, len, indices) ==
    IF len = 0 \/ pool = <<>>
    THEN [panic |-> FALSE, str |-> <<>>]
    ELSE LET scale == Scale(Len(pool))
             at    == [i \in 1..len |-> ScaledIndex(indices[i], scale)]
         IN  IF \E i \in 1..len : at[i] >= Len(pool)
             THEN [panic |-> TRUE, str |-> <<>>]
             ELSE [panic |-> FALSE, str |-> [i \in 1..len |-> pool[at[i] + 1]]]

\* gen_rand_char of the unit test, with the byte getrandom delivered
\* (main.rs 257-266); an out-of-bounds index is reported as panic
gen_rand_char(pool, byte) ==
    LET scale == Scale(Len(pool))
        at    == ScaledIndex(byte, scale)
    IN  IF at >= Len(pool)
        THEN [panic |-> TRUE, chr |-> ""]
        ELSE [panic |-> FALSE, chr |-> pool[at + 1]]

\* ------------------------------------------------------------------------
\* Integer parsing (str::parse of the standard library, called at
\* main.rs 128 for the i32 `repeat` and at main.rs 148 for the usize `len`)
\*
\* An optional sign ('+', and for a signed type '-') followed by one or more
\* decimal digits.  Tokens of the model are short, so the overflow error of
\* parse is never met.
\* ------------------------------------------------------------------------

DigitValue(c) == CHOOSE v \in 0..9 : DIGITS[v + 1] = c

RECURSIVE DigitsValue(_, _)
DigitsValue(ds, acc) ==
    IF ds = <<>> THEN acc ELSE DigitsValue(Tail(ds), 10 * acc + DigitValue(Head(ds)))

ParseInt(tok, signed) ==
    LET neg  == signed /\ tok # <<>> /\ Head(tok) = "-"
        body == IF tok # <<>> /\ (Head(tok) = "+" \/ neg) THEN Tail(tok) ELSE tok
        ok   == body # <<>> /\ \A i \in DOMAIN body : body[i] \in Range(DIGITS)
    IN  IF ~ok THEN [ok |-> FALSE, val |-> 0]
        ELSE [ok |-> TRUE,
              val |-> IF neg THEN -DigitsValue(body, 0) ELSE DigitsValue(body, 0)]

\* ------------------------------------------------------------------------
\* Command-line tokens
\* ------------------------------------------------------------------------

IsCopy(arg) == arg \in {<<"-", "-", "c", "o", "p", "y">>, <<"-", "c">>}

IsRepeat(arg) == arg \in {<<"-", "-", "r", "e", "p", "e", "a", "t">>, <<"-", "r">>}

IsHelp(arg) == arg \in {<<"-", "-", "h", "e", "l", "p">>, <<"-", "h">>}

IsShowPool(arg) == arg = <<"-", "-", "s", "h", "o", "w", "-", "p", "o", "o", "l">>

StartsWithDash(arg) == arg # <<>> /\ Head(arg) = "-"

\* ------------------------------------------------------------------------
\* Pool directives (main.rs 164-206)
\* ------------------------------------------------------------------------

\* SetIndex with 'm' writing the slot of 's'
SetIndexSlip(set) ==
    CASE set = "d" -> 1
      [] set = "l" -> 2
      [] set = "u" -> 3
      [] set = "s" -> 4
      [] set = "m" -> 4

\* the slot of use_defined_sets a set letter stands for (main.rs 180-184);
\* slots are numbered from 1 here
SetIndex(set) ==
    CASE set = "d" -> 1
      [] set = "l" -> 2
      [] set = "u" -> 3
      [] set = "s" -> 4
      [] set = "m" -> 5

\* Extend putting the new items in front
ExtendFront(vec, items) == items \o vec

\* Vec::extend (main.rs 195, 197)
Extend(vec, items) == vec \o items

\* position of the first ']' of chars, Len(chars) + 1 when there is none
\* (the inner loop of main.rs 188-193)
CloseAt(chars) ==
    IF \E i \in DOMAIN chars : chars[i] = "]"
    THEN CHOOSE i \in DOMAIN chars :
             chars[i] = "]" /\ \A j \in 1..(i - 1) : chars[j] # "]"
    ELSE Len(chars) + 1

\* the scan of one entry after its prefix (main.rs 178-205): acc holds
\* use_defined_sets, add_chars, remove_chars and the error met, if any
RECURSIVE ScanEntry(_, _, _)
ScanEntry(chars, state, acc) ==
    IF chars = <<>> THEN acc
    ELSE LET set  == Head(chars)
             rest == Tail(chars)
         IN  CASE set \in {"d", "l", "u", "s", "m"} ->
                    ScanEntry(rest, state,
                              [acc EXCEPT !.sets[SetIndex(set)] = state])
               [] set = "A" ->
                    ScanEntry(rest, state,
                              [acc EXCEPT !.sets = [i \in 1..Len(DEFINED_SETS) |-> FALSE]])
               [] set = "[" ->
                    LET k         == CloseAt(rest)
                        set_chars == SubSeq(rest, 1, k - 1)
                        after     == SubSeq(rest, k + 1, Len(rest))
                    IN  ScanEntry(after, state,
                                  IF state
                                  THEN [acc EXCEPT !.add = Extend(@, set_chars)]
                                  ELSE [acc EXCEPT !.remove = Extend(@, set_chars)])
               [] OTHER -> [acc EXCEPT !.err = "InvalidPoolEntry"]

\* ------------------------------------------------------------------------
\* Pool construction helpers (main.rs 209-232)
\* ------------------------------------------------------------------------

\* the included predefined sets, in the order of DEFINED_SETS (main.rs 209-214)
RECURSIVE DefinedPool(_, _)
DefinedPool(sets, i) ==
    IF i > Len(DEFINED_SETS) THEN <<>>
    ELSE (IF sets[i] THEN DEFINED_SETS[i] ELSE <<>>) \o DefinedPool(sets, i + 1)

\* pool.iter().position(|c2| *c2 == c), 0 for None (main.rs 216, 225)
Position(pool, c) ==
    IF \E i \in DOMAIN pool : pool[i] = c
    THEN CHOOSE i \in DOMAIN pool : pool[i] = c /\ \A j \in 1..(i - 1) : pool[j] # c
    ELSE 0

\* Vec::remove (main.rs 231)
RemoveAt(pool, idx) == SubSeq(pool, 1, idx - 1) \o SubSeq(pool, idx + 1, Len(pool))

\* ------------------------------------------------------------------------
\* Inputs
\* ------------------------------------------------------------------------

\* longest argument list explored
MaxArgs == 3

\* the arguments the lists are made of: flags, integers, entries that are
\* accepted and entries that raise each of the errors
ArgTokens ==
    { <<"-", "c">>, <<"-", "r">>, <<"-", "h">>,
      <<"-", "-", "s", "h", "o", "w", "-", "p", "o", "o", "l">>,
      <<"4">>, <<"0">>, <<"2">>, <<"-", "1">>, <<>>,
      <<"+", "d">>, <<"-", "d">>, <<"+", "A">>, <<"-", "A">>,
      <<"-", "u", "l", "s", "m">>, <<"-", "u", "-", "l", "-", "s", "-", "m">>,
      <<"+", "[", "%", "]">>, <<"-", "[", "%", "]">>, <<"+", "[", "$", "]">>,
      <<"+", "[", "a">>, <<"-", "[", ".", "]">> }

ArgLists == UNION {[1..k -> ArgTokens] : k \in 0..MaxArgs}

\* the buffers getrandom may deliver, as explored with the whole program:
\* a rising, a constant and a wrapping one
RandomBuffers(n) ==
    {[i \in 1..n |-> (start + (i - 1) * step) % (BYTE_MAX + 1)] :
        <<start, step>> \in {<<0, 85>>, <<255, 0>>, <<100, 50>>}}

\* the buffers explored with the sampler alone: every byte value in the
\* first place, followed by bytes a fixed step apart
SampleBuffers(n) ==
    {[i \in 1..n |-> (start + (i - 1) * step) % (BYTE_MAX + 1)] :
        start \in Bytes, step \in {0, 85, 171}}

\* the characters sample pools are made of: the predefined sets and the
\* custom characters of the help text's example (main.rs 70)
SampleChars ==
    DIGITS \o LETTERS_LC \o LETTERS_UC \o SEPARATORS \o MISC_SYMBOLS
           \o <<"%", "$", "^", "@">>

\* largest sample pool and longest sample string
MaxSamplePool == 72

MaxSampleLen == 3

SamplePool(n) == SubSeq(SampleChars, 1, n)

\* ------------------------------------------------------------------------
\* State
\* ------------------------------------------------------------------------

VARIABLES
    argv,             \* std::env::args() after the binary path
    ai,               \* position of the iterator `args`: next argument
    pc,               \* where main (or the unit test) stands
    show_pool,        \* main.rs 113
    copy_cond,        \* main.rs 114
    len,              \* main.rs 115: <<>> for None, <<n>> for Some(n)
    repeat,           \* main.rs 116
    use_defined_sets, \* main.rs 159
    add_chars,        \* main.rs 160
    remove_chars,     \* main.rs 161
    ci,               \* position of the for loops of main.rs 215 and 224
    pool,             \* main.rs 209
    strings,          \* main.rs 240
    stdout,           \* the lines printed, each [kind, text]
    clipboard,        \* <<>> until set_contents succeeds, then <<string>>
    error,            \* "none", the error reported by err!, or the panic
    exit_code,        \* <<>> while running, then <<status>>
    tally,            \* unit test: a_count, b_count as a map from characters
    next_byte         \* unit test: the next byte value to be drawn

vars ==
    <<argv, ai, pc, show_pool, copy_cond, len, repeat, use_defined_sets,
      add_chars, remove_chars, ci, pool, strings, stdout, clipboard, error,
      exit_code, tally, next_byte>>

Line(kind, text) == [kind |-> kind, text |-> text]

StringLines(out) == SelectSeq(out, LAMBDA l : l.kind = "string")

\* the locals of main as their declarations leave them (main.rs 113-116,
\* 159-161)
InitLocals ==
    /\ ai = 1
    /\ show_pool = FALSE
    /\ copy_cond = FALSE
    /\ len = <<>>
    /\ repeat = 1
    /\ use_defined_sets = [i \in 1..Len(DEFINED_SETS) |-> TRUE]
    /\ add_chars = <<>>
    /\ remove_chars = <<>>
    /\ ci = 1
    /\ strings = <<>>

InitOutputs ==
    /\ stdout = <<>>
    /\ clipboard = <<>>
    /\ error = "none"
    /\ exit_code = <<>>

NoTest ==
    /\ tally = <<>>
    /\ next_byte = 0

Init ==
    /\ argv \in ArgLists
    /\ pc = "parse_args"
    /\ InitLocals
    /\ pool = <<>>
    /\ InitOutputs
    /\ NoTest

\* ------------------------------------------------------------------------
\* Ways out of main
\* ------------------------------------------------------------------------

\* err!: print the ERROR and the HELP line, then `return` from main
\* (main.rs 83-89); a return from main is exit status 0
Fail(kind) ==
    /\ error' = kind
    /\ stdout' = stdout \o <<Line("ERROR", <<>>), Line("HELP", <<>>)>>
    /\ pc' = "done"
    /\ exit_code' = <<0>>

\* unwrap / expect on an Err (main.rs 97, 247-249) and an index out of
\* bounds (main.rs 105): the panic ends the process with status 101
Panic(kind) ==
    /\ error' = kind
    /\ stdout' = stdout
    /\ pc' = "done"
    /\ exit_code' = <<101>>

\* ------------------------------------------------------------------------
\* Phase 1: flags and length (main.rs 119-157)
\* ------------------------------------------------------------------------

\* one turn of the loop of main.rs 119-153, or line 155 when the
\* arguments run out before a length was found
ParseArg ==
    /\ pc = "parse_args"
    /\ UNCHANGED <<argv, use_defined_sets, add_chars, remove_chars, ci, pool,
                   strings, clipboard, tally, next_byte>>
    /\ IF ai > Len(argv)
       THEN /\ Fail("MissingArgument")
            /\ UNCHANGED <<ai, show_pool, copy_cond, len, repeat>>
       ELSE LET arg == argv[ai]
            IN  CASE IsCopy(arg) ->
                       /\ copy_cond' = TRUE
                       /\ ai' = ai + 1
                       /\ UNCHANGED <<pc, show_pool, len, repeat, stdout, error,
                                      exit_code>>
                  [] IsRepeat(arg) ->
                       IF ai + 1 > Len(argv)
                       THEN /\ Fail("MissingArgument")
                            /\ UNCHANGED <<ai, show_pool, copy_cond, len, repeat>>
                       ELSE LET count == ParseInt(argv[ai + 1], TRUE)
                            IN  IF count.ok
                                THEN /\ repeat' = count.val
                                     /\ ai' = ai + 2
                                     /\ UNCHANGED <<pc, show_pool, copy_cond, len,
                                                    stdout, error, exit_code>>
                                ELSE /\ Fail("InvalidInteger")
                                     /\ UNCHANGED <<ai, show_pool, copy_cond, len,
                                                    repeat>>
                  [] IsHelp(arg) ->
                       /\ stdout' = Append(stdout, Line("help", <<>>))
                       /\ pc' = "done"
                       /\ exit_code' = <<0>>
                       /\ UNCHANGED <<ai, show_pool, copy_cond, len, repeat, error>>
                  [] IsShowPool(arg) ->
                       /\ show_pool' = TRUE
                       /\ ai' = ai + 1
                       /\ UNCHANGED <<pc, copy_cond, len, repeat, stdout, error,
                                      exit_code>>
                  [] OTHER ->
                       IF StartsWithDash(arg)
                       THEN /\ Fail("UnknownFlag")
                            /\ UNCHANGED <<ai, show_pool, copy_cond, len, repeat>>
                       ELSE LET n == ParseInt(arg, FALSE)
                            IN  IF n.ok
                                THEN /\ len' = <<n.val>>
                                     /\ ai' = ai + 1
                                     /\ pc' = "parse_entries"
                                     /\ UNCHANGED <<show_pool, copy_cond, repeat,
                                                    stdout, error, exit_code>>
                                ELSE /\ Fail("InvalidInteger")
                                     /\ UNCHANGED <<ai, show_pool, copy_cond, len,
                                                    repeat>>

\* ------------------------------------------------------------------------
\* Phase 2: pool modifiers (main.rs 164-206)
\* ------------------------------------------------------------------------

\* one turn of the loop of main.rs 164-206
ParseEntry ==
    /\ pc = "parse_entries"
    /\ ai <= Len(argv)
    /\ UNCHANGED <<argv, show_pool, copy_cond, len, repeat, ci, pool, strings,
                   clipboard, tally, next_byte>>
    /\ LET arg == argv[ai]
       IN  IF arg = <<>>
           THEN /\ ai' = ai + 1
                /\ UNCHANGED <<pc, use_defined_sets, add_chars, remove_chars,
                               stdout, error, exit_code>>
           ELSE IF Head(arg) \notin {"+", "-"}
           THEN /\ Fail("InvalidPrefix")
                /\ UNCHANGED <<ai, use_defined_sets, add_chars, remove_chars>>
           ELSE LET r == ScanEntry(Tail(arg), Head(arg) = "+",
                                   [sets   |-> use_defined_sets,
                                    add    |-> add_chars,
                                    remove |-> remove_chars,
                                    err    |-> "none"])
                IN  IF r.err # "none"
                    THEN /\ Fail(r.err)
                         /\ UNCHANGED <<ai, use_defined_sets, add_chars,
                                        remove_chars>>
                    ELSE /\ use_defined_sets' = r.sets
                         /\ add_chars' = r.add
                         /\ remove_chars' = r.remove
                         /\ ai' = ai + 1
                         /\ UNCHANGED <<pc, stdout, error, exit_code>>

\* ------------------------------------------------------------------------
\* Pool creation (main.rs 208-236)
\* ------------------------------------------------------------------------

\* the entries are used up: the predefined sets go in (main.rs 209-214)
CreatePool ==
    /\ pc = "parse_entries"
    /\ ai > Len(argv)
    /\ pool' = DefinedPool(use_defined_sets, 1)
    /\ ci' = 1
    /\ pc' = "add_chars"
    /\ UNCHANGED <<argv, ai, show_pool, copy_cond, len, repeat, use_defined_sets,
                   add_chars, remove_chars, strings, stdout, clipboard, error,
                   exit_code, tally, next_byte>>

\* AddChar without the look-up of main.rs 216
AddCharUnchecked ==
    /\ pc = "add_chars"
    /\ UNCHANGED <<argv, ai, show_pool, copy_cond, len, repeat, use_defined_sets,
                   add_chars, remove_chars, strings, clipboard, tally, next_byte>>
    /\ IF ci > Len(add_chars)
       THEN /\ pc' = "remove_chars"
            /\ ci' = 1
            /\ UNCHANGED <<pool, stdout, error, exit_code>>
       ELSE /\ pool' = Append(pool, add_chars[ci])
            /\ ci' = ci + 1
            /\ UNCHANGED <<pc, stdout, error, exit_code>>

\* one turn of the loop of main.rs 215-223, or its end
AddChar ==
    /\ pc = "add_chars"
    /\ UNCHANGED <<argv, ai, show_pool, copy_cond, len, repeat, use_defined_sets,
                   add_chars, remove_chars, strings, clipboard, tally, next_byte>>
    /\ IF ci > Len(add_chars)
       THEN /\ pc' = "remove_chars"
            /\ ci' = 1
            /\ UNCHANGED <<pool, stdout, error, exit_code>>
       ELSE IF Position(pool, add_chars[ci]) # 0
       THEN /\ Fail("DuplicateCharacter")
            /\ UNCHANGED <<ci, pool>>
       ELSE /\ pool' = Append(pool, add_chars[ci])
            /\ ci' = ci + 1
            /\ UNCHANGED <<pc, stdout, error, exit_code>>

\* RemoveChar reporting a missing character without returning from main
RemoveCharGoesOn ==
    /\ pc = "remove_chars"
    /\ UNCHANGED <<argv, ai, show_pool, copy_cond, len, repeat, use_defined_sets,
                   add_chars, remove_chars, strings, clipboard, tally, next_byte>>
    /\ IF ci > Len(remove_chars)
       THEN /\ pc' = "show_pool"
            /\ UNCHANGED <<ci, pool, stdout, error, exit_code>>
       ELSE IF Position(pool, remove_chars[ci]) = 0
       THEN /\ error' = "CharacterNotFound"
            /\ stdout' = stdout \o <<Line("ERROR", <<>>), Line("HELP", <<>>)>>
            /\ ci' = ci + 1
            /\ UNCHANGED <<pc, pool, exit_code>>
       ELSE /\ pool' = RemoveAt(pool, Position(pool, remove_chars[ci]))
            /\ ci' = ci + 1
            /\ UNCHANGED <<pc, stdout, error, exit_code>>

\* one turn of the loop of main.rs 224-232, or its end
RemoveChar ==
    /\ pc = "remove_chars"
    /\ UNCHANGED <<argv, ai, show_pool, copy_cond, len, repeat, use_defined_sets,
                   add_chars, remove_chars, strings, clipboard, tally, next_byte>>
    /\ IF ci > Len(remove_chars)
       THEN /\ pc' = "show_pool"
            /\ UNCHANGED <<ci, pool, stdout, error, exit_code>>
       ELSE IF Position(pool, remove_chars[ci]) = 0
       THEN /\ Fail("CharacterNotFound")
            /\ UNCHANGED <<ci, pool>>
       ELSE /\ pool' = RemoveAt(pool, Position(pool, remove_chars[ci]))
            /\ ci' = ci + 1
            /\ UNCHANGED <<pc, stdout, error, exit_code>>

\* main.rs 234-236
ShowPool ==
    /\ pc = "show_pool"
    /\ stdout' = IF show_pool THEN Append(stdout, Line("pool", pool)) ELSE stdout
    /\ pc' = "generate"
    /\ UNCHANGED <<argv, ai, show_pool, copy_cond, len, repeat, use_defined_sets,
                   add_chars, remove_chars, ci, pool, strings, clipboard, error,
                   exit_code, tally, next_byte>>

\* ------------------------------------------------------------------------
\* String creation (main.rs 238-250)
\* ------------------------------------------------------------------------

\* does this call of gen_rand_string ask getrandom for bytes? (main.rs 92-97)
DrawsBytes == len[1] # 0 /\ pool # <<>>

\* one call of gen_rand_string by the map of main.rs 240, with the buffer
\* getrandom fills taken from `buffers`
GenString(buffers) ==
    /\ pc = "generate"
    /\ Len(strings) < repeat
    /\ \E indices \in buffers :
          LET r == gen_rand_string(pool, len[1], indices)
          IN  IF r.panic
              THEN /\ Panic("IndexOutOfBounds")
                   /\ UNCHANGED strings
              ELSE /\ strings' = Append(strings, r.str)
                   /\ UNCHANGED <<pc, stdout, error, exit_code>>
    /\ UNCHANGED <<argv, ai, show_pool, copy_cond, len, repeat, use_defined_sets,
                   add_chars, remove_chars, ci, pool, clipboard, tally, next_byte>>

\* getrandom returns an Err and unwrap panics (main.rs 97)
RandomSourceFails ==
    /\ pc = "generate"
    /\ Len(strings) < repeat
    /\ DrawsBytes
    /\ Panic("RandomSourceFailure")
    /\ UNCHANGED <<argv, ai, show_pool, copy_cond, len, repeat, use_defined_sets,
                   add_chars, remove_chars, ci, pool, strings, clipboard, tally,
                   next_byte>>

\* every string is collected: print them in order (main.rs 242-244)
PrintStrings ==
    /\ pc = "generate"
    /\ Len(strings) >= repeat
    /\ stdout' = stdout \o [i \in 1..Len(strings) |-> Line("string", strings[i])]
    /\ pc' = "copy"
    /\ UNCHANGED <<argv, ai, show_pool, copy_cond, len, repeat, use_defined_sets,
                   add_chars, remove_chars, ci, pool, strings, clipboard, error,
                   exit_code, tally, next_byte>>

\* main.rs 246: is there a last string, and was --copy given?
Copies == strings # <<>> /\ copy_cond

\* the clipboard takes the last string (main.rs 246-250), main returns
CopyLast ==
    /\ pc = "copy"
    /\ Copies
    /\ clipboard' = <<strings[Len(strings)]>>
    /\ pc' = "done"
    /\ exit_code' = <<0>>
    /\ UNCHANGED <<argv, ai, show_pool, copy_cond, len, repeat, use_defined_sets,
                   add_chars, remove_chars, ci, pool, strings, stdout, error,
                   tally, next_byte>>

\* ClipboardContext::new or set_contents returns an Err and expect panics
\* (main.rs 247-249)
ClipboardFails ==
    /\ pc = "copy"
    /\ Copies
    /\ Panic("ClipboardFailure")
    /\ UNCHANGED <<argv, ai, show_pool, copy_cond, len, repeat, use_defined_sets,
                   add_chars, remove_chars, ci, pool, strings, clipboard, tally,
                   next_byte>>

\* nothing to copy: main returns (main.rs 246, 251)
Return ==
    /\ pc = "copy"
    /\ ~Copies
    /\ pc' = "done"
    /\ exit_code' = <<0>>
    /\ UNCHANGED <<argv, ai, show_pool, copy_cond, len, repeat, use_defined_sets,
                   add_chars, remove_chars, ci, pool, strings, stdout, clipboard,
                   error, tally, next_byte>>

Generate == GenString(IF DrawsBytes THEN RandomBuffers(len[1]) ELSE {<<>>})

Next ==
    \/ ParseArg
    \/ ParseEntry
    \/ CreatePool
    \/ AddChar
    \/ RemoveChar
    \/ ShowPool
    \/ Generate
    \/ RandomSourceFails
    \/ PrintStrings
    \/ CopyLast
    \/ ClipboardFails
    \/ Return

Spec == Init /\ [][Next]_vars

\* ------------------------------------------------------------------------
\* The sampler alone: main has reached line 240 with a pool of custom
\* characters, and every byte value is tried
\* ------------------------------------------------------------------------

\* the argument list `len -A +[pool]`, which leaves main at line 240 with
\* this pool and length and everything else at its default
SampleArgs(n, l) ==
    <<<<DIGITS[l + 1]>>, <<"-", "A">>, <<"+", "[">> \o SamplePool(n) \o <<"]">>>>

InitSample ==
    /\ \E n \in 0..MaxSamplePool, l \in 0..MaxSampleLen :
          /\ argv = SampleArgs(n, l)
          /\ len = <<l>>
          /\ add_chars = SamplePool(n)
          /\ pool = SamplePool(n)
    /\ ai = 4
    /\ pc = "generate"
    /\ show_pool = FALSE
    /\ copy_cond = FALSE
    /\ repeat = 1
    /\ use_defined_sets = [i \in 1..Len(DEFINED_SETS) |-> FALSE]
    /\ remove_chars = <<>>
    /\ ci = 1
    /\ strings = <<>>
    /\ InitOutputs
    /\ NoTest

GenerateSample == GenString(IF DrawsBytes THEN SampleBuffers(len[1]) ELSE {<<>>})

NextSample ==
    \/ GenerateSample
    \/ RandomSourceFails
    \/ PrintStrings
    \/ Return

SpecSample == InitSample /\ [][NextSample]_vars

\* ------------------------------------------------------------------------
\* The distribution check of the unit test (main.rs 295-315), with the
\* random bytes replaced by one draw of each byte value
\* ------------------------------------------------------------------------

InitTest ==
    /\ argv = <<>>
    /\ pc = "test"
    /\ InitLocals
    /\ InitOutputs
    /\ \E n \in 1..MaxSamplePool :
          /\ pool = SamplePool(n)
          /\ tally = [c \in Range(SamplePool(n)) |-> 0]
    /\ next_byte = 0

\* one turn of the counting loop (main.rs 300-307)
TallyByte ==
    /\ pc = "test"
    /\ next_byte <= BYTE_MAX
    /\ LET r == gen_rand_char(pool, next_byte)
       IN  IF r.panic
           THEN /\ Panic("IndexOutOfBounds")
                /\ UNCHANGED <<tally, next_byte>>
           ELSE /\ tally' = [tally EXCEPT ![r.chr] = @ + 1]
                /\ next_byte' = next_byte + 1
                /\ UNCHANGED <<pc, stdout, error, exit_code>>
    /\ UNCHANGED <<argv, ai, show_pool, copy_cond, len, repeat, use_defined_sets,
                   add_chars, remove_chars, ci, pool, strings, clipboard>>

NextTest == TallyByte

SpecTest == InitTest /\ [][NextTest]_vars

\* ------------------------------------------------------------------------
\* Properties
\* ------------------------------------------------------------------------

\* the errors err! reports while parsing and while building the pool
ParseBuildErrors ==
    {"MissingArgument", "InvalidInteger", "UnknownFlag", "InvalidPrefix",
     "InvalidPoolEntry", "DuplicateCharacter", "CharacterNotFound"}

\* C1: gen_rand_string never indexes the pool out of bounds; from a
\* non-empty pool it returns exactly len characters, each a member of the
\* pool; from an empty pool or for length 0 it returns the empty string; and
\* from a pool of one character every character is that one.
C1_SamplerContract ==
    /\ error # "IndexOutOfBounds"
    /\ \A k \in DOMAIN strings :
          LET str == strings[k]
          IN  /\ (pool = <<>> \/ len[1] = 0) => str = <<>>
              /\ pool # <<>> =>
                    /\ Len(str) = len[1]
                    /\ \A i \in DOMAIN str : str[i] \in Range(pool)
              /\ Len(pool) = 1 => \A i \in DOMAIN str : str[i] = pool[1]

\* a string of two or more characters was sampled from a pool of several,
\* and it holds the pool's last and its first character
C1_Witness ==
    /\ pc = "done"
    /\ error = "none"
    /\ Len(pool) > 1
    /\ len[1] >= 2
    /\ strings # <<>>
    /\ strings[1][1] = pool[Len(pool)]
    /\ strings[1][2] = pool[1]

\* C2: when every byte value is drawn once, the numbers of byte values
\* sent to any two characters of the pool differ by at most 1.
C2_NearUniform ==
    next_byte = BYTE_MAX + 1 =>
        \A c1, c2 \in DOMAIN tally : tally[c1] - tally[c2] <= 1

\* C3: the exit status is 0 exactly when the run succeeds or shows the
\* help; it is non-zero when an error was reported.
C3_ExitStatus ==
    pc = "done" => (exit_code = <<0>> <=> error = "none")

\* a decimal numeral of a positive integer
IsPositiveInteger(tok) == ParseInt(tok, FALSE).ok /\ ParseInt(tok, FALSE).val > 0

\* C6: the token after a leading --repeat / -r must be a positive integer:
\* absent, the run ends in MissingArgument; not a positive integer, it ends
\* in InvalidInteger with no string generated; otherwise a run without error
\* generates exactly that many strings.
C6_RepeatCount ==
    (pc = "done" /\ argv # <<>> /\ IsRepeat(argv[1])) =>
        IF Len(argv) = 1 THEN error = "MissingArgument"
        ELSE IF ~IsPositiveInteger(argv[2])
        THEN error = "InvalidInteger" /\ strings = <<>>
        ELSE error = "none" => Len(StringLines(stdout)) = ParseInt(argv[2], FALSE).val

\* C8: when a parse or pool-build error was reported, no generated string
\* is printed and the clipboard is not written; strings are printed only
\* once every argument was parsed and every character added and removed
\* without such an error.
C8_AllOrNothing ==
    /\ error \in ParseBuildErrors =>
          /\ StringLines(stdout) = <<>>
          /\ strings = <<>>
          /\ clipboard = <<>>
    /\ (StringLines(stdout) # <<>> \/ clipboard # <<>>) =>
          /\ error \notin ParseBuildErrors
          /\ pc \in {"copy", "done"}
          /\ len # <<>>
          /\ ai = Len(argv) + 1
          /\ ci = Len(remove_chars) + 1

\* a build error ended a run that was asked for a string and the clipboard
C8_Witness ==
    /\ pc = "done"
    /\ error = "CharacterNotFound"
    /\ copy_cond
    /\ len # <<>> /\ len[1] > 0
    /\ repeat > 0

\* no character stands at two places of s
Distinct(s) == \A i, j \in DOMAIN s : s[i] = s[j] => i = j

\* C9: the pool's characters are pairwise distinct at every step; adding a
\* character that is in the pool at that step ends in DuplicateCharacter and
\* appends nothing; removing a character that is not in the pool at that
\* step ends in CharacterNotFound.
C9_PoolDistinct ==
    /\ [](Distinct(pool))
    /\ [][/\ (pc = "add_chars" /\ ci <= Len(add_chars)
                /\ add_chars[ci] \in Range(pool)) =>
                   (error' = "DuplicateCharacter" /\ pool' = pool /\ pc' = "done")
          /\ (pc = "remove_chars" /\ ci <= Len(remove_chars)
                /\ remove_chars[ci] \notin Range(pool)) =>
                   (error' = "CharacterNotFound" /\ pool' = pool /\ pc' = "done")]_vars

\* a character added earlier in the same run was added again
C9_Witness ==
    /\ pc = "done"
    /\ error = "DuplicateCharacter"
    /\ ci > 1
    /\ \E i \in 1..(ci - 1) : add_chars[i] = add_chars[ci]

\* ------------------------------------------------------------------------
\* The entries of a run, read off the argument list
\* ------------------------------------------------------------------------

\* position of the length among the arguments of a run that found one
RECURSIVE LengthAt(_, _)
LengthAt(args, i) ==
    IF i > Len(args) THEN 0
    ELSE IF IsCopy(args[i]) \/ IsShowPool(args[i]) THEN LengthAt(args, i + 1)
    ELSE IF IsRepeat(args[i]) THEN LengthAt(args, i + 2)
    ELSE i

\* the arguments after the length
EntryTokens == SubSeq(argv, LengthAt(argv, 1) + 1, Len(argv))

\* the letters of the predefined sets, in the canonical order
SetLetters == <<"d", "l", "u", "s", "m">>

\* the directives of one entry, in order: a set letter or A with the
\* entry's sign, and each custom character as an addition or a removal
RECURSIVE OpsOf(_, _, _)
OpsOf(chars, sign, inRun) ==
    IF chars = <<>> THEN <<>>
    ELSE LET c == Head(chars)
         IN  IF inRun
             THEN IF c = "]" THEN OpsOf(Tail(chars), sign, FALSE)
                  ELSE <<[op |-> IF sign THEN "add" ELSE "remove", arg |-> c,
                          sign |-> sign]>> \o OpsOf(Tail(chars), sign, TRUE)
             ELSE IF c = "[" THEN OpsOf(Tail(chars), sign, TRUE)
                  ELSE <<[op |-> "set", arg |-> c, sign |-> sign]>>
                       \o OpsOf(Tail(chars), sign, FALSE)

RECURSIVE OpsOfAll(_)
OpsOfAll(tokens) ==
    IF tokens = <<>> THEN <<>>
    ELSE (IF Head(tokens) = <<>> THEN <<>>
          ELSE OpsOf(Tail(Head(tokens)), Head(Head(tokens)) = "+", FALSE))
         \o OpsOfAll(Tail(tokens))

EntryOps == OpsOfAll(EntryTokens)

CharsOf(ops, kind) ==
    LET sel == SelectSeq(ops, LAMBDA o : o.op = kind)
    IN  [k \in DOMAIN sel |-> sel[k].arg]

\* the pool of the predefined sets flagged in inc, in the canonical order
CanonicalPool(inc) ==
    (IF inc[1] THEN DIGITS ELSE <<>>) \o (IF inc[2] THEN LETTERS_LC ELSE <<>>)
    \o (IF inc[3] THEN LETTERS_UC ELSE <<>>) \o (IF inc[4] THEN SEPARATORS ELSE <<>>)
    \o (IF inc[5] THEN MISC_SYMBOLS ELSE <<>>)

MaxOf(S) == CHOOSE x \in S : \A y \in S : y <= x

\* the argument lists `4 -u-l-s-m` and `4 -ulsm`
ArgsDashedGroup == <<<<"4">>, <<"-", "u", "-", "l", "-", "s", "-", "m">>>>

ArgsDigitsOnly == <<<<"4">>, <<"-", "u", "l", "s", "m">>>>

PrintsFourDigits ==
    LET out == StringLines(stdout)
    IN  /\ Len(out) = 1
        /\ Len(out[1].text) = 4
        /\ \A i \in 1..4 : out[1].text[i] \in Range(DIGITS)

\* C4 as stated: `4 -u-l-s-m` is accepted, resolves to the digits, and a
\* run that ends without a panic prints one string of 4 digits.
C4_DashedGroup ==
    (argv = ArgsDashedGroup /\ pc = "done") =>
        /\ error \notin ParseBuildErrors
        /\ pool = DIGITS
        /\ error = "none" => PrintsFourDigits

\* C4 as amended: `4 -u-l-s-m` is rejected with InvalidPoolEntry (the
\* second '-' is no set) and prints no string; `4 -ulsm` is accepted,
\* resolves to the digits, and a run that ends without a panic prints one
\* string of 4 digits.
C4_DigitsOnly ==
    /\ (argv = ArgsDashedGroup /\ pc = "done") =>
          (error = "InvalidPoolEntry" /\ StringLines(stdout) = <<>>)
    /\ (argv = ArgsDigitsOnly /\ pc \in {"show_pool", "generate", "copy", "done"}) =>
          (error \notin ParseBuildErrors /\ pool = DIGITS)
    /\ (argv = ArgsDigitsOnly /\ pc = "done" /\ error = "none") => PrintsFourDigits

\* `4 -ulsm` ran to its end and printed its string
C4_Witness ==
    /\ argv = ArgsDigitsOnly
    /\ pc = "done"
    /\ error = "none"
    /\ StringLines(stdout) # <<>>

\* an entry with every A outside a custom set written out as dulsm
RECURSIVE ExpandAlias(_, _)
ExpandAlias(chars, inRun) ==
    IF chars = <<>> THEN <<>>
    ELSE LET c == Head(chars)
         IN  IF inRun THEN <<c>> \o ExpandAlias(Tail(chars), c # "]")
             ELSE IF c = "A"
                  THEN <<"d", "u", "l", "s", "m">> \o ExpandAlias(Tail(chars), FALSE)
                  ELSE <<c>> \o ExpandAlias(Tail(chars), c = "[")

ExpandToken(tok) ==
    IF tok = <<>> THEN tok ELSE <<Head(tok)>> \o ExpandAlias(Tail(tok), FALSE)

\* the scan of main.rs 164-206 over a whole list of well-formed entries
RECURSIVE ScanTokens(_, _)
ScanTokens(tokens, acc) ==
    IF tokens = <<>> THEN acc
    ELSE IF Head(tokens) = <<>> THEN ScanTokens(Tail(tokens), acc)
    ELSE ScanTokens(Tail(tokens),
                    ScanEntry(Tail(Head(tokens)), Head(Head(tokens)) = "+", acc))

\* C5: A is an alias for dulsm: once the entries are parsed, the five
\* inclusion flags are those the same entries give with every A written
\* out as dulsm.
C5_AllAlias ==
    pc = "add_chars" =>
        use_defined_sets =
            ScanTokens([i \in DOMAIN EntryTokens |-> ExpandToken(EntryTokens[i])],
                       [sets   |-> [i \in 1..Len(DEFINED_SETS) |-> TRUE],
                        add    |-> <<>>,
                        remove |-> <<>>,
                        err    |-> "none"]).sets

\* the sign of the last directive naming set i (by its letter or by the
\* alias A), included when none does
LastSign(i, ops) ==
    LET named == {k \in DOMAIN ops :
                     ops[k].op = "set" /\ ops[k].arg \in {SetLetters[i], "A"}}
    IN  IF named = {} THEN TRUE ELSE ops[MaxOf(named)].sign

\* C7: the pool of the predefined sets holds, in the canonical order,
\* exactly the sets whose last naming directive is an inclusion or that no
\* directive names.
C7_LastDirectiveWins ==
    (pc = "add_chars" /\ ci = 1) =>
        pool = CanonicalPool([i \in 1..5 |-> LastSign(i, EntryOps)])

\* the pool seen while directives are applied one at a time
SeqView(st) ==
    SelectSeq(CanonicalPool(st.sets), LAMBDA c : c \notin st.removed) \o st.extra

\* one directive applied to the pool at once
SeqStep(o, st) ==
    CASE o.op = "set" /\ o.arg = "A" ->
            [st EXCEPT !.sets = [i \in 1..5 |-> FALSE]]
      [] o.op = "set" /\ o.arg # "A" ->
            [st EXCEPT !.sets[CHOOSE i \in 1..5 : SetLetters[i] = o.arg] = o.sign]
      [] o.op = "add" ->
            IF o.arg \in Range(SeqView(st))
            THEN [st EXCEPT !.err = "DuplicateCharacter"]
            ELSE [st EXCEPT !.extra = Append(@, o.arg)]
      [] o.op = "remove" ->
            IF o.arg \notin Range(SeqView(st))
            THEN [st EXCEPT !.err = "CharacterNotFound"]
            ELSE IF o.arg \in Range(st.extra)
            THEN [st EXCEPT !.extra = SelectSeq(@, LAMBDA c : c # o.arg)]
            ELSE [st EXCEPT !.removed = @ \cup {o.arg}]

RECURSIVE SeqApply(_, _)
SeqApply(ops, st) ==
    IF ops = <<>> \/ st.err # "none" THEN st
    ELSE SeqApply(Tail(ops), SeqStep(Head(ops), st))

SeqOutcome ==
    SeqApply(EntryOps, [sets |-> [i \in 1..5 |-> TRUE], extra |-> <<>>,
                        removed |-> {}, err |-> "none"])

\* C10 as stated: the pool, or the build error, is the one obtained by
\* applying every directive, custom characters included, one at a time in
\* command-line order.
C10_InOrder ==
    /\ pc = "show_pool" => (SeqOutcome.err = "none" /\ pool = SeqView(SeqOutcome))
    /\ (pc = "done" /\ error \in {"DuplicateCharacter", "CharacterNotFound"}) =>
          SeqOutcome.err = error

\* the inclusion flags by last write: a set letter writes its sign, A
\* writes FALSE to every set
FlagOf(i, ops) ==
    LET writes == {k \in DOMAIN ops :
                      ops[k].op = "set" /\ ops[k].arg \in {SetLetters[i], "A"}}
        last   == ops[MaxOf(writes)]
    IN  IF writes = {} THEN TRUE
        ELSE IF last.arg = "A" THEN FALSE ELSE last.sign

\* C10 as amended: set letters take effect in command-line order; the
\* custom characters are collected in command-line order into one add-list
\* and one remove-list, and the pool is the included predefined sets, then
\* every addition in order, then every removal in order, wherever the
\* additions and removals stood on the command line.  The first added
\* character already present ends the run in DuplicateCharacter; otherwise
\* the first removed character not (or no longer) present ends it in
\* CharacterNotFound.
C10_AddsThenRemoves ==
    LET adds    == CharsOf(EntryOps, "add")
        removes == CharsOf(EntryOps, "remove")
        base    == CanonicalPool([i \in 1..5 |-> FlagOf(i, EntryOps)])
        full    == base \o adds
        dup     == \E k \in DOMAIN adds :
                      adds[k] \in Range(base) \/ \E j \in 1..(k - 1) : adds[j] = adds[k]
        miss    == \E k \in DOMAIN removes :
                      \/ removes[k] \notin Range(full)
                      \/ \E j \in 1..(k - 1) : removes[j] = removes[k]
    IN  /\ pc \in {"add_chars", "remove_chars", "show_pool"} =>
              (add_chars = adds /\ remove_chars = removes)
        /\ pc = "show_pool" =>
              /\ ~dup /\ ~miss
              /\ pool = SelectSeq(full, LAMBDA c : c \notin Range(removes))
        /\ (pc = "done" /\ error = "DuplicateCharacter") => dup
        /\ (pc = "done" /\ error = "CharacterNotFound") => (~dup /\ miss)

\* a pool was built from entries in which a removal stands before an
\* addition
C10_Witness ==
    /\ pc = "show_pool"
    /\ \E i, j \in DOMAIN EntryOps :
          i < j /\ EntryOps[i].op = "remove" /\ EntryOps[j].op = "add"

====
